---------------------------- MODULE Spec2Model ----------------------------
(***************************************************************************)
(* Model of log_types/src/time.rs: the value types Time and Duration, both *)
(* a signed 64-bit count of nanoseconds, their arithmetic, interpolation   *)
(* and text rendering.                                                     *)
(*                                                                         *)
(* TLC's integers are 32 bits wide, so an i64 (and the wider mathematical  *)
(* results it is compared with) is held as three limbs <<h, m, l>> of      *)
(* value h*10^18 + m*10^9 + l with m, l in 0..10^9-1 and h of either sign   *)
(* (a floor representation: every integer has exactly one such triple, so *)
(* equality of triples is equality of integers).                           *)
(***************************************************************************)
EXTENDS Integers, Sequences, TLC

\* a, b      the i64 operands: the nanosecond counts of the Times and
\*           Durations an operation is applied to
\* pc        "ready" before the operation, "done" after it
\* op        the operation that ran
\* val, val2 the nanosecond counts of the Times or Durations it returned
\* panicked  whether it panicked (integer overflow with overflow checks on)
\* text      the pieces written to the formatter; text2 those for b
\* loc       the locals of exact_format at return, or the mode of format
VARIABLES a, b, pc, op, val, val2, panicked, text, text2, loc

vars == <<a, b, pc, op, val, val2, panicked, text, text2, loc>>

(***************************************************************************)
(* Program constants of Duration::exact_format.                            *)
(***************************************************************************)
NANOS_PER_SEC == 1000000000
SEC_PER_MINUTE == 60
SEC_PER_HOUR == 60 * SEC_PER_MINUTE
SEC_PER_DAY == 24 * SEC_PER_HOUR
MILLISECOND_ACCURACY_OFF == FALSE   \* mutant of MAX_MILLISECOND_ACCURACY
MAX_MILLISECOND_ACCURACY == TRUE
MAX_MICROSECOND_ACCURACY == TRUE

(***************************************************************************)
(* Wide integers. A value computed once and used several times is passed   *)
(* to a helper operator as an argument.                                    *)
(***************************************************************************)
Base == NANOS_PER_SEC

Norm(h, m, l) ==
    <<h + ((m + (l \div Base)) \div Base), (m + (l \div Base)) % Base, l % Base>>

FromInt(n) == Norm(0, 0, n)
Zero == <<0, 0, 0>>
BigAdd(x, y) == Norm(x[1] + y[1], x[2] + y[2], x[3] + y[3])
BigSub(x, y) == Norm(x[1] - y[1], x[2] - y[2], x[3] - y[3])
BigNeg(x) == Norm(-x[1], -x[2], -x[3])
BigLt(x, y) ==
    \/ x[1] < y[1]
    \/ x[1] = y[1] /\ x[2] < y[2]
    \/ x[1] = y[1] /\ x[2] = y[2] /\ x[3] < y[3]
BigLe(x, y) == ~BigLt(y, x)
IsNeg(x) == x[1] < 0
IsPos(x) == x[1] >= 0 /\ x # Zero
BigAbs(x) == IF IsNeg(x) THEN BigNeg(x) ELSE x
WithSign(negative, magnitude) == IF negative THEN BigNeg(magnitude) ELSE magnitude

\* One limb times k: <<carry, limb>> with l * k = carry * Base + limb, for
\* 0 <= k <= 10^5, three decimal digits at a time so that no intermediate
\* product leaves TLC's integers.
MulLimbSum(p0, p1, p2) ==
    <<(p1 \div 1000000) + (p2 \div 1000)
        + ((p0 + (p1 % 1000000) * 1000 + (p2 % 1000) * 1000000) \div Base),
      (p0 + (p1 % 1000000) * 1000 + (p2 % 1000) * 1000000) % Base>>
MulLimb(l, k) ==
    MulLimbSum((l % 1000) * k, ((l \div 1000) % 1000) * k, (l \div 1000000) * k)

\* x * k for a wide x and a constant 0 <= k <= 10^5.
MulJoin(h, pm, pl) == Norm(h + pm[1], pm[2] + pl[1], pl[2])
BigMul(x, k) == MulJoin(x[1] * k, MulLimb(x[2], k), MulLimb(x[3], k))

\* x * 10^9 for a wide x of magnitude below 2 * 10^18: a shift by one limb.
MulBase(x) == <<x[1] * Base + x[2], x[3], 0>>

\* Long division of one limb, three decimal digits at a time:
\* <<quotient limb, remainder>> of (r * 10^9 + limb) by k, for r < k <= 2*10^6.
DivLimb0(q, s0, k) == <<q + (s0 \div k), s0 % k>>
DivLimb1(q, s1, limb, k) ==
    DivLimb0(q + (s1 \div k) * 1000, (s1 % k) * 1000 + (limb % 1000), k)
DivLimb2(s2, limb, k) ==
    DivLimb1((s2 \div k) * 1000000, (s2 % k) * 1000 + ((limb \div 1000) % 1000), limb, k)
DivLimb(r, limb, k) == DivLimb2(r * 1000 + (limb \div 1000000), limb, k)

\* Quotient and remainder of a wide x >= 0 by a constant k: 0 < k <= 2*10^6,
\* or k = 10^9.
DivLow(qh, qm, t3) == [q |-> <<qh, qm, t3[1]>>, r |-> t3[2]]
DivMid(qh, t2, l, k) == DivLow(qh, t2[1], DivLimb(t2[2], l, k))
UDivMod(x, k) ==
    IF k = Base
    THEN [q |-> <<0, x[1], x[2]>>, r |-> x[3]]
    ELSE DivMid(x[1] \div k, DivLimb(x[1] % k, x[2], k), x[3], k)

\* Rust's integer `/` and `%` by a positive constant: truncation toward zero.
TDiv(x, k) == WithSign(IsNeg(x), UDivMod(BigAbs(x), k).q)
TRem(x, k) == WithSign(IsNeg(x), FromInt(UDivMod(BigAbs(x), k).r))

(***************************************************************************)
(* i64.                                                                    *)
(***************************************************************************)
I64_MAX == <<9, 223372036, 854775807>>
I64_MIN == <<-10, 776627963, 145224192>>
Two64 == <<18, 446744073, 709551616>>
InI64(x) == BigLe(I64_MIN, x) /\ BigLe(x, I64_MAX)

\* The value a two's-complement i64 holds after an operation whose exact
\* result is x (what a build without overflow checks computes): x reduced
\* modulo 2^64 into I64_MIN..I64_MAX, by binary long division.
WrapPick(x, down, up) ==
    IF BigLe(I64_MIN, down) THEN down
    ELSE IF BigLe(up, I64_MAX) THEN up
    ELSE x
WrapStep(x, step) == WrapPick(x, BigSub(x, step), BigAdd(x, step))
RECURSIVE WrapFrom(_, _)
WrapFrom(x, i) ==
    IF i < 0 THEN x ELSE WrapFrom(WrapStep(x, BigMul(Two64, 2 ^ i)), i - 1)
Wrap(x) == WrapFrom(x, 12)

\* Integer overflow of `+`, `-`, `*` on i64: a build with overflow checks
\* (debug) panics, a build without them (release) wraps.
Builds == {"debug", "release"}
Checked(build, exact) ==
    IF InI64(exact) THEN [panic |-> FALSE, v |-> exact]
    ELSE IF build = "debug" THEN [panic |-> TRUE, v |-> Zero]
    ELSE [panic |-> FALSE, v |-> Wrap(exact)]

\* i64::saturating_add, i64::saturating_sub: on overflow the bound on the side
\* the exact result left the range, which the sign of the right operand tells.
Saturate(exact, towardMin) ==
    IF InI64(exact) THEN exact ELSE IF towardMin THEN I64_MIN ELSE I64_MAX
\* Mutants: the plain operators of a build without overflow checks.
wrapping_add(x, y) == Wrap(BigAdd(x, y))
wrapping_sub(x, y) == Wrap(BigSub(x, y))
saturating_add(x, y) == Saturate(BigAdd(x, y), IsNeg(y))
saturating_sub(x, y) == Saturate(BigSub(x, y), ~IsNeg(y))

(***************************************************************************)
(* f64, for the integer values Time::lerp passes through it.               *)
(***************************************************************************)
Two53 == <<0, 9007199, 254740992>>
\* 2^e for 53 <= e <= 64
Pow2(e) == BigMul(Two53, 2 ^ (e - 53))

\* The binary exponent e of a magnitude x >= 2^53: 2^e <= x < 2^(e+1).
RECURSIVE ExpOf(_, _)
ExpOf(x, e) == IF BigLt(x, Pow2(e + 1)) THEN e ELSE ExpOf(x, e + 1)

\* `x as f64` for an i64 x: exact below 2^53, else rounded to the nearest
\* multiple of ulp = 2^(e-52), ties to the even multiple. The result is an
\* integer, held as a wide integer.
RoundPick(lo, ulp, r) ==
    IF 2 * r < ulp THEN lo
    ELSE IF 2 * r > ulp THEN BigAdd(lo, FromInt(ulp))
    ELSE IF UDivMod(lo, 2 * ulp).r = 0 THEN lo
    ELSE BigAdd(lo, FromInt(ulp))
RoundRem(x, ulp, r) == RoundPick(BigSub(x, FromInt(r)), ulp, r)
RoundUlp(x, ulp) == RoundRem(x, ulp, UDivMod(x, ulp).r)
RoundMag(x) ==
    IF BigLt(x, Two53) THEN x ELSE RoundUlp(x, 2 ^ (ExpOf(x, 53) - 52))
I64ToF64(x) == WithSign(IsNeg(x), RoundMag(BigAbs(x)))

\* `f as i64` for an integer-valued f64: the cast saturates at the i64 bounds.
F64ToI64(f) ==
    IF BigLt(f, I64_MIN) THEN I64_MIN ELSE IF BigLt(I64_MAX, f) THEN I64_MAX ELSE f

(***************************************************************************)
(* Text: `{}` and `{:0w}` of an i64.                                       *)
(***************************************************************************)
RECURSIVE ZeroPad(_, _)
ZeroPad(s, w) == IF Len(s) >= w THEN s ELSE ZeroPad("0" \o s, w)

MagToString(x) ==
    IF x[1] > 0 THEN ToString(x[1]) \o ZeroPad(ToString(x[2]), 9) \o ZeroPad(ToString(x[3]), 9)
    ELSE IF x[2] > 0 THEN ToString(x[2]) \o ZeroPad(ToString(x[3]), 9)
    ELSE ToString(x[3])

\* format!("{}", x)
Display(x) == (IF IsNeg(x) THEN "-" ELSE "") \o MagToString(BigAbs(x))

\* format!("{:0w}", x): the sign counts toward the width.
DisplayPadded(x, w) ==
    (IF IsNeg(x) THEN "-" ELSE "")
        \o ZeroPad(MagToString(BigAbs(x)), IF IsNeg(x) THEN w - 1 ELSE w)

(***************************************************************************)
(* Duration.                                                               *)
(***************************************************************************)
\* Mutant: negation without the guard for i64::MIN.
Neg_unguarded(self) == Wrap(BigNeg(self))

\* impl Neg for Duration
Neg(self) == IF self = I64_MIN THEN I64_MAX ELSE BigNeg(self)

\* Mutant: the seconds token without its fraction.
SecondsPiece_whole(secs, nanos) == [branch |-> "s", piece |-> secs \o "s"]

\* The seconds token of exact_format: which branch writes it, and what.
\* secs is the text of seconds_remaining.
SecondsPiece(secs, nanos) ==
    IF nanos = Zero
    THEN [branch |-> "s", piece |-> secs \o "s"]
    ELSE IF MAX_MILLISECOND_ACCURACY \/ TRem(nanos, 1000000) = Zero
    THEN [branch |-> "ms",
          piece |-> secs \o "." \o DisplayPadded(TDiv(nanos, 1000000), 3) \o "s"]
    ELSE IF MAX_MICROSECOND_ACCURACY \/ TRem(nanos, 1000) = Zero
    THEN [branch |-> "us",
          piece |-> secs \o "." \o DisplayPadded(TDiv(nanos, 1000), 6) \o "s"]
    ELSE [branch |-> "ns",
          piece |-> secs \o "." \o DisplayPadded(nanos, 9) \o "s"]
SecondsToken(seconds_remaining, nanos) ==
    SecondsPiece(Display(seconds_remaining), nanos)

\* One of the d/h/m steps of exact_format. st is the running state
\* [out, seconds_remaining, did_write, counts]: the pieces written so far, the
\* two locals, and the counts of the steps taken. `count` is
\* seconds_remaining / per; when it is positive the step writes it (after a
\* space if something was written) and takes it off seconds_remaining.
UnitWrite(st, per, suffix, count) ==
    IF IsPos(count)
    THEN [out |-> (IF st.did_write THEN Append(st.out, " ") ELSE st.out)
                  \o <<Display(count) \o suffix>>,
          seconds_remaining |-> BigSub(st.seconds_remaining, BigMul(count, per)),
          did_write |-> TRUE,
          counts |-> Append(st.counts, count)]
    ELSE [out |-> st.out, seconds_remaining |-> st.seconds_remaining,
          did_write |-> st.did_write, counts |-> Append(st.counts, count)]
UnitStep(st, per, suffix) ==
    UnitWrite(st, per, suffix, TDiv(st.seconds_remaining, per))

\* Mutant: the seconds component without the `!did_write` case.
WritesSeconds_nonzero(seconds_remaining, nanos, did_write) ==
    IsPos(seconds_remaining) \/ IsPos(nanos)

\* The condition of the trailing seconds component.
WritesSeconds(seconds_remaining, nanos, did_write) ==
    IsPos(seconds_remaining) \/ IsPos(nanos) \/ ~did_write

\* Duration::exact_format. `out` is the sequence of pieces written to the
\* formatter, in order; the other fields are the function's locals at return.
FormatSeconds(total_nanos, whole_seconds, nanos, st, secs, tok) ==
    [out |-> IF secs
             THEN (IF st.did_write THEN Append(st.out, " ") ELSE st.out)
                  \o <<tok.piece>>
             ELSE st.out,
     total_nanos |-> total_nanos,
     whole_seconds |-> whole_seconds,
     nanos |-> nanos,
     days |-> st.counts[1],
     hours |-> st.counts[2],
     minutes |-> st.counts[3],
     seconds_remaining |-> st.seconds_remaining,
     wrote_seconds |-> secs,
     branch |-> IF secs THEN tok.branch ELSE "none"]
FormatUnits(total_nanos, whole_seconds, nanos, st) ==
    FormatSeconds(total_nanos, whole_seconds, nanos, st,
                  WritesSeconds(st.seconds_remaining, nanos, st.did_write),
                  SecondsToken(st.seconds_remaining, nanos))
FormatWhole(negative, total_nanos, whole_seconds) ==
    FormatUnits(total_nanos, whole_seconds,
                BigSub(total_nanos, MulBase(whole_seconds)),
                UnitStep(
                  UnitStep(
                    UnitStep([out |-> IF negative THEN <<"-">> ELSE <<>>,
                              seconds_remaining |-> whole_seconds,
                              did_write |-> FALSE,
                              counts |-> <<>>],
                             SEC_PER_DAY, "d"),
                    SEC_PER_HOUR, "h"),
                  SEC_PER_MINUTE, "m"))
FormatTotal(negative, total_nanos) ==
    FormatWhole(negative, total_nanos, TDiv(total_nanos, NANOS_PER_SEC))
\* Mutant: the decomposition of self as it is, without the negation.
exact_format_signed(self) == FormatTotal(IsNeg(self), self)

exact_format(self) ==
    FormatTotal(IsNeg(self), IF IsNeg(self) THEN Neg(self) ELSE self)

\* The string a formatter holds after the pieces were written to it.
RECURSIVE Concat(_)
Concat(pieces) == IF pieces = <<>> THEN "" ELSE Head(pieces) \o Concat(Tail(pieces))

\* impl Display for Duration
DurationToString(self) == Concat(exact_format(self).out)

(***************************************************************************)
(* Time.                                                                   *)
(***************************************************************************)
\* Time::from_ns_since_epoch
from_ns_since_epoch(ns_since_epoch) == ns_since_epoch

\* Time::from_us_since_epoch: `us_since_epoch * 1_000`, a plain i64 product.
from_us_since_epoch(build, us_since_epoch) ==
    Checked(build, BigMul(us_since_epoch, 1000))

\* impl Sub for Time
TimeSub(self, rhs) == saturating_sub(self, rhs)

\* impl Add<Duration> for Time
TimeAdd(self, duration) == saturating_add(self, duration)

\* impl AddAssign<Duration> for Time
TimeAddAssign(self, duration) == saturating_add(self, duration)

\* The f32 arguments of Time::lerp the model draws: 0.0 and 1.0. Their
\* product with an f64 is exact.
LerpTs == {0, 1}
F64MulUnit(f, t) == IF t = 0 THEN Zero ELSE f

\* Time::lerp: `min + ((max - min) as f64 * (t as f64)).round() as i64`, with
\* plain i64 `-` and `+`.
LerpSum(build, min, diff, t) ==
    IF diff.panic THEN diff
    ELSE Checked(build, BigAdd(min, F64ToI64(F64MulUnit(I64ToF64(diff.v), t))))
lerp(build, min, max, t) == LerpSum(build, min, Checked(build, BigSub(max, min)), t)

\* Time::format: the mode it renders in. `today` is the current UTC date as
\* a day number; the date of the Time is its whole seconds over 86400.
years_since_epoch(nanos_since_epoch) ==
    TDiv(TDiv(TDiv(TDiv(TDiv(nanos_since_epoch, 1000000000), 60), 60), 24), 365)

DateOf(nanos_since_epoch) == TDiv(TDiv(nanos_since_epoch, 1000000000), 86400)

\* Mutant: the lower bound taken strictly.
IsAbsolute_strict(years) == BigLt(FromInt(50), years) /\ BigLe(years, FromInt(150))

IsAbsolute(years) == BigLe(FromInt(50), years) /\ BigLe(years, FromInt(150))

FormatMode(self, today, years) ==
    IF IsAbsolute(years)
    THEN [years |-> years,
          mode |-> IF DateOf(self) = today THEN "time_of_day" ELSE "date_time",
          sign |-> ""]
    ELSE [years |-> years, mode |-> "relative",
          sign |-> IF IsNeg(self) THEN "-" ELSE "+"]
format(self, today) == FormatMode(self, today, years_since_epoch(self))

(***************************************************************************)
(* Inputs: every i64 within Spread of a value where the code changes       *)
(* behaviour.                                                              *)
(***************************************************************************)
Spread == 1

Positive ==
    { I64_MAX,
      <<0, 0, 1000000>>,               \* 1 ms
      <<0, 0, 1500000>>,               \* 1.5 ms
      <<0, 1, 0>>,                     \* 1 s
      <<0, 2, 0>>,                     \* 2 s
      <<0, 5, 0>>,                     \* 5 s
      <<0, 60, 0>>,                    \* 1 m
      <<0, 3600, 0>>,                  \* 1 h
      <<0, 3661, 0>>,                  \* 1 h 1 m 1 s
      <<0, 86400, 0>>,                 \* 1 d
      <<0, 90061, 500000000>>,         \* 1 d 1 h 1 m 1.5 s
      <<1, 576800000, 0>>,             \* 50 * 365 days
      <<3, 153600000, 0>>,             \* 100 * 365 days
      <<4, 761936000, 0>>,             \* 151 * 365 days
      BigAdd(Two53, FromInt(1)),       \* 2^53 + 1
      TDiv(I64_MAX, 1000) }            \* the largest count of microseconds

Anchors == {Zero, I64_MIN} \cup Positive \cup {BigNeg(c) : c \in Positive}

Inputs ==
    { x \in { BigAdd(c, FromInt(k)) : c \in Anchors, k \in (-Spread)..Spread } :
        InI64(x) }

NoLocals == [branch |-> "none"]

Init ==
    /\ a \in Inputs
    /\ b \in Inputs
    /\ pc = "ready"
    /\ op = "none"
    /\ val = Zero
    /\ val2 = Zero
    /\ panicked = FALSE
    /\ text = <<>>
    /\ text2 = <<>>
    /\ loc = NoLocals

\* Time(a) - Time(b)
Sub ==
    /\ pc = "ready"
    /\ pc' = "done" /\ op' = "sub"
    /\ val' = TimeSub(a, b)
    /\ UNCHANGED <<a, b, val2, panicked, text, text2, loc>>

\* Time(a) + Duration(b)
Add ==
    /\ pc = "ready"
    /\ pc' = "done" /\ op' = "add"
    /\ val' = TimeAdd(a, b)
    /\ UNCHANGED <<a, b, val2, panicked, text, text2, loc>>

\* t = Time(a); t += Duration(b)
AddAssign ==
    /\ pc = "ready"
    /\ pc' = "done" /\ op' = "add_assign"
    /\ val' = TimeAddAssign(a, b)
    /\ UNCHANGED <<a, b, val2, panicked, text, text2, loc>>

\* (Time(a) + Duration(b)) + (-Duration(b)): val is the intermediate Time,
\* val2 the final one.
AddThenAddNeg ==
    /\ pc = "ready"
    /\ pc' = "done" /\ op' = "add_neg"
    /\ val' = TimeAdd(a, b)
    /\ val2' = TimeAdd(val', Neg(b))
    /\ UNCHANGED <<a, b, panicked, text, text2, loc>>

\* -Duration(a)
Negate ==
    /\ pc = "ready"
    /\ pc' = "done" /\ op' = "neg"
    /\ val' = Neg(a)
    /\ UNCHANGED <<a, b, val2, panicked, text, text2, loc>>

\* Duration(a).exact_format(f)
ExactFormat ==
    /\ pc = "ready"
    /\ pc' = "done" /\ op' = "exact_format"
    /\ loc' = exact_format(a)
    /\ text' = loc'.out
    /\ UNCHANGED <<a, b, val, val2, panicked, text2>>

\* Duration(a).to_string() and Duration(b).to_string()
DisplayBoth ==
    /\ pc = "ready"
    /\ pc' = "done" /\ op' = "display"
    /\ text' = <<DurationToString(a)>>
    /\ text2' = <<DurationToString(b)>>
    /\ UNCHANGED <<a, b, val, val2, panicked, loc>>

\* Time(a).format(), on the day of the Time or on the day after
Format ==
    /\ pc = "ready"
    /\ \E next \in {0, 1} :
          loc' = format(a, BigAdd(DateOf(a), FromInt(next)))
    /\ pc' = "done" /\ op' = "format"
    /\ UNCHANGED <<a, b, val, val2, panicked, text, text2>>

\* Time::lerp(Time(a)..=Time(b), t)
Lerp ==
    /\ pc = "ready"
    /\ \E build \in Builds, t \in LerpTs : \E r \in {lerp(build, a, b, t)} :
          /\ val' = r.v
          /\ panicked' = r.panic
          /\ val2' = FromInt(t)
    /\ pc' = "done" /\ op' = "lerp"
    /\ UNCHANGED <<a, b, text, text2, loc>>

\* Time::from_ns_since_epoch(a)
FromNs ==
    /\ pc = "ready"
    /\ pc' = "done" /\ op' = "from_ns"
    /\ val' = from_ns_since_epoch(a)
    /\ UNCHANGED <<a, b, val2, panicked, text, text2, loc>>

\* Time::from_us_since_epoch(a)
FromUs ==
    /\ pc = "ready"
    /\ \E build \in Builds : \E r \in {from_us_since_epoch(build, a)} :
          /\ val' = r.v
          /\ panicked' = r.panic
    /\ pc' = "done" /\ op' = "from_us"
    /\ UNCHANGED <<a, b, val2, text, text2, loc>>

Next ==
    \/ Sub
    \/ Add
    \/ AddAssign
    \/ AddThenAddNeg
    \/ Negate
    \/ ExactFormat
    \/ DisplayBoth
    \/ Format
    \/ Lerp
    \/ FromNs
    \/ FromUs

Spec == Init /\ [][Next]_vars

(***************************************************************************)
(* Properties. The operators below state the expected results from the     *)
(* mathematics of the inputs; they are not part of the program.            *)
(***************************************************************************)
Clamp(x) ==
    IF BigLt(x, I64_MIN) THEN I64_MIN ELSE IF BigLt(I64_MAX, x) THEN I64_MAX ELSE x
\* |x| clamped into i64
AbsSat(x) == Clamp(BigAbs(x))
WithinOne(x, y) ==
    BigLe(BigSub(x, y), FromInt(1)) /\ BigLe(BigSub(y, x), FromInt(1))
IsSmall(x) == x[1] = 0 /\ x[2] = 0
Pad3(n) ==
    IF n < 10 THEN "00" \o ToString(n)
    ELSE IF n < 100 THEN "0" \o ToString(n)
    ELSE ToString(n)
\* The seconds token for `seconds` whole seconds and a remainder of r ns.
SecTok(seconds, r) ==
    ToString(seconds) \o (IF r = 0 THEN "" ELSE "." \o Pad3(r \div 1000000)) \o "s"
UnitToks(days, hours, minutes) ==
    (IF days # 0 THEN <<ToString(days) \o "d">> ELSE <<>>)
    \o (IF hours # 0 THEN <<ToString(hours) \o "h">> ELSE <<>>)
    \o (IF minutes # 0 THEN <<ToString(minutes) \o "m">> ELSE <<>>)
AllToks(units, seconds, r) ==
    IF seconds # 0 \/ r # 0 \/ units = <<>>
    THEN Append(units, SecTok(seconds, r)) ELSE units
RECURSIVE JoinSpaces(_)
JoinSpaces(toks) ==
    IF Len(toks) <= 1 THEN toks ELSE <<Head(toks), " ">> \o JoinSpaces(Tail(toks))
ExpectedText(days, hours, minutes, seconds, r) ==
    JoinSpaces(AllToks(UnitToks(days, hours, minutes), seconds, r))
Last(seq) == seq[Len(seq)]
FiftyYears == <<1, 576800000, 0>>         \* 50 * 365 * 86400 * 10^9
Past150Years == <<4, 761936000, 0>>       \* 151 * 365 * 86400 * 10^9

\* C1: Time(a) - Time(b) holds the exact difference a - b clamped to
\* [i64::MIN, i64::MAX]; Time(a) + Duration(b) and Time(a) += Duration(b) both
\* hold the exact sum a + b clamped to that range; nothing wraps or panics.
C1_SaturatingArithmetic ==
    /\ op = "sub" => val = Clamp(BigSub(a, b)) /\ ~panicked
    /\ op = "add" => val = Clamp(BigAdd(a, b)) /\ ~panicked
    /\ op = "add_assign" => val = Clamp(BigAdd(a, b)) /\ ~panicked

C1_Witness ==
    /\ op = "sub" /\ BigLt(BigSub(a, b), I64_MIN) /\ val = I64_MIN

\* C2 as stated: (t + d) + (-d) is within one nanosecond of t when t + d did
\* not saturate; when it did, the intermediate and the final result are both
\* at i64::MIN or i64::MAX.
C2_Original ==
    op = "add_neg" =>
        IF InI64(BigAdd(a, b))
        THEN WithinOne(val2, a)
        ELSE val \in {I64_MIN, I64_MAX} /\ val2 \in {I64_MIN, I64_MAX}

\* C2 (amended): (t + d) + (-d) is within one nanosecond of t when t + d did
\* not saturate; when it did, the intermediate result is the bound on the side
\* of d's sign, and the final result is that bound plus the clamped negation
\* of d: it lies between zero and t, on t's side of zero, never beyond.
C2_RoundTrip ==
    op = "add_neg" =>
        IF InI64(BigAdd(a, b))
        THEN WithinOne(val2, a)
        ELSE /\ val = (IF IsNeg(b) THEN I64_MIN ELSE I64_MAX)
             /\ val2 = Clamp(BigAdd(val, Clamp(BigNeg(b))))
             /\ IsNeg(a) => BigLe(a, val2) /\ IsNeg(val2)
             /\ ~IsNeg(a) => BigLe(Zero, val2) /\ BigLt(val2, a)

C2_Witness ==
    /\ op = "add_neg" /\ ~InI64(BigAdd(a, b))
    /\ val = I64_MAX /\ val2 # I64_MAX /\ val2 # I64_MIN

\* C3: -Duration(n) holds exactly -n for every n but i64::MIN, and
\* -Duration(i64::MIN) is Duration::MAX; the negation of a negative Duration
\* is strictly positive.
C3_NegNeverOverflows ==
    op = "neg" =>
        /\ a # I64_MIN => BigAdd(val, a) = Zero
        /\ a = I64_MIN => val = I64_MAX
        /\ IsNeg(a) => IsPos(val)
        /\ InI64(val)

C3_Witness == op = "neg" /\ a = I64_MIN /\ val = I64_MAX

\* C4: for a non-negative Duration exact_format writes the greedy
\* decomposition of its whole seconds W: hours < 24, minutes < 60, seconds
\* < 60, days*86400 + hours*3600 + minutes*60 + seconds = W; the d, h, m
\* tokens appear in that order exactly when nonzero, the seconds token exactly
\* when seconds or the nanosecond remainder is nonzero or nothing was written,
\* single spaces between them; 0 renders as "0s" and 90_061_500_000_000 as
\* "1d 1h 1m 1.500s".
C4_GreedyDecomposition ==
    (op = "exact_format" /\ ~IsNeg(a)) =>
        /\ IsSmall(loc.days) /\ IsSmall(loc.hours) /\ IsSmall(loc.minutes)
        /\ IsSmall(loc.seconds_remaining)
        /\ loc.days[3] >= 0
        /\ loc.hours[3] \in 0..23
        /\ loc.minutes[3] \in 0..59
        /\ loc.seconds_remaining[3] \in 0..59
        /\ BigAdd(BigMul(loc.days, 86400),
                  FromInt(loc.hours[3] * 3600 + loc.minutes[3] * 60
                          + loc.seconds_remaining[3]))
             = <<0, a[1], a[2]>>
        /\ text = ExpectedText(loc.days[3], loc.hours[3], loc.minutes[3],
                               loc.seconds_remaining[3], a[3])
        /\ Len(text) >= 1
        /\ a = Zero => Concat(text) = "0s"
        /\ a = <<0, 90061, 500000000>> => Concat(text) = "1d 1h 1m 1.500s"

C4_Witness ==
    /\ op = "exact_format" /\ a = <<0, 90061, 500000000>>
    /\ text = <<"1d", " ", "1h", " ", "1m", " ", "1.500s">>

\* C5: for a negative Duration, i64::MIN included, exact_format writes one
\* leading "-" and then exactly what it writes for the clamped negation; for a
\* non-negative one it writes no sign; -5_000_000_000 renders as "-5s"; no
\* count of the decomposition is negative.
C5_NegativeSign ==
    op = "exact_format" =>
        /\ IsNeg(a) => text = <<"-">> \o exact_format(AbsSat(a)).out
        /\ IsNeg(a) => text[2] # "-"
        /\ ~IsNeg(a) => text[1] # "-"
        /\ a = BigNeg(<<0, 5, 0>>) => Concat(text) = "-5s"
        /\ ~IsNeg(loc.total_nanos) /\ ~IsNeg(loc.whole_seconds)
        /\ ~IsNeg(loc.nanos) /\ ~IsNeg(loc.days) /\ ~IsNeg(loc.hours)
        /\ ~IsNeg(loc.minutes) /\ ~IsNeg(loc.seconds_remaining)

C5_Witness ==
    /\ op = "exact_format" /\ a = I64_MIN
    /\ text = <<"-", "106751d", " ", "23h", " ", "47m", " ", "16.854s">>

\* C6 as stated: two Durations render to the same string only if they hold
\* the same nanosecond count.
C6_Original ==
    op = "display" => (text = text2 => a = b)

\* C6 (amended): two Durations render to the same string only if they have
\* the same sign and their magnitudes (clamped to i64::MAX) hold the same
\* number of whole milliseconds: the text gives the value to the millisecond.
C6_LosslessToMilliseconds ==
    op = "display" =>
        (text = text2 =>
            /\ IsNeg(a) = IsNeg(b)
            /\ TDiv(AbsSat(a), 1000000) = TDiv(AbsSat(b), 1000000))

C6_Witness == op = "display" /\ a # b /\ text = text2

\* C7: Time::format renders an absolute date-time exactly when
\* 50*365*86400*10^9 <= nanos < 151*365*86400*10^9, whatever the current
\* date, and signed relative seconds for every other value: zero, 2 s after
\* the epoch and every negative count included.
C7_FormatMode ==
    op = "format" =>
        /\ loc.mode \in {"time_of_day", "date_time"}
             <=> (BigLe(FiftyYears, a) /\ BigLt(a, Past150Years))
        /\ loc.mode = "relative"
             <=> ~(BigLe(FiftyYears, a) /\ BigLt(a, Past150Years))
        /\ loc.mode = "relative" => loc.sign = (IF IsNeg(a) THEN "-" ELSE "+")
        /\ (a = Zero \/ a = <<0, 2, 0>> \/ IsNeg(a)) => loc.mode = "relative"

C7_Witness == op = "format" /\ a = FiftyYears /\ loc.mode = "time_of_day"

\* C8: for a range with lower < upper, Time::lerp(range, 0.0) is the lower
\* bound and Time::lerp(range, 1.0) the upper bound, without overflow.
C8_LerpEndpoints ==
    (op = "lerp" /\ BigLt(a, b)) =>
        /\ ~panicked
        /\ val2 = FromInt(0) => val = a
        /\ val2 = FromInt(1) => val = b

\* C9: from_ns_since_epoch(n) holds exactly n, and from_us_since_epoch(u)
\* returns a Time without panicking or wrapping for every i64 u.
C9_ConstructorsTotal ==
    /\ op = "from_ns" => val = a /\ ~panicked
    /\ op = "from_us" =>
          /\ ~panicked
          /\ InI64(BigMul(a, 1000)) => val = BigMul(a, 1000)
          /\ ~InI64(BigMul(a, 1000)) => val # Wrap(BigMul(a, 1000))

\* C10: in exact_format a nonzero nanosecond remainder r always gives the
\* seconds token "<seconds>.<mmm>s", mmm = r div 1_000_000 in three digits,
\* and r = 0 gives "<seconds>s"; the microsecond and nanosecond branches are
\* never taken; a remainder of 1 ns renders as ".000".
C10_MillisecondPrecision ==
    op = "exact_format" =>
        /\ loc.branch \in {"s", "ms", "none"}
        /\ AbsSat(a)[3] # 0 =>
             /\ loc.branch = "ms"
             /\ IsSmall(loc.seconds_remaining)
             /\ Last(text) = ToString(loc.seconds_remaining[3]) \o "."
                                \o Pad3(AbsSat(a)[3] \div 1000000) \o "s"
        /\ (AbsSat(a)[3] = 0 /\ loc.wrote_seconds) =>
             /\ loc.branch = "s"
             /\ IsSmall(loc.seconds_remaining)
             /\ Last(text) = ToString(loc.seconds_remaining[3]) \o "s"
        /\ a = FromInt(1) => text = <<"0.000s">>

C10_Witness ==
    /\ op = "exact_format" /\ a = FromInt(1)
    /\ loc.branch = "ms" /\ text = <<"0.000s">>

=============================================================================
